---- MODULE Spec2Model ----
(***************************************************************************)
(* Model of File_organizer.py: the rule-driven organize / undo engine.     *)
(*                                                                         *)
(* Strings (file names, category names, extensions) are sequences of       *)
(* one-character strings, so that lower(), startswith() and endswith()     *)
(* are computed as Python computes them.  A path is the sequence of its    *)
(* components, os.path.join(a, b) is Append(a, b).  The filesystem is a    *)
(* function from the existing paths to what is stored there.               *)
(***************************************************************************)
EXTENDS Integers, Sequences, FiniteSets, TLC

VARIABLES
    fs,                 \* the filesystem: existing path |-> entry
    config_file,        \* content of config.json
    file_extensions,    \* ordered mapping category -> extensions (a dict)
    ignore_list,        \* the ignore list as held in memory
    selected_directory, \* None or the chosen directory path
    undo_stack,         \* list of batches, a batch is a list of (src, dest)
    last,               \* what the last organize / undo did (observation)
    snaps,              \* per held batch, the filesystem before and after
                        \* the organize that recorded it (observation)
    deleted,            \* number of files the user has removed by hand
    windows,            \* the configuration windows: listbox, selection,
                        \* checkboxes
    cfg_steps           \* number of steps taken in configuration windows

vars == <<fs, config_file, file_extensions, ignore_list,
          selected_directory, undo_stack, last, snaps, deleted,
          windows, cfg_steps>>

cfgvars == <<config_file, file_extensions, ignore_list, windows, cfg_steps>>

fsvars == <<fs, selected_directory, undo_stack, snaps, deleted>>

----------------------------------------------------------------------------
(* Bounds of the model *)

\* most regular files at the top level of a directory in an initial state
MaxFiles == 2

\* most pre-existing category-folder trees in an initial state
MaxExtras == 1

\* most files the user removes by hand from the category folders
MaxDeletes == 1

\* most configuration windows open at a time
MaxWindows == 2

\* most steps taken in the configuration windows
MaxConfigSteps == 6

----------------------------------------------------------------------------
(* Strings *)

\* selected_directory = None (no directory chosen)
None == <<>>

Lower(c) ==
    CASE c = "A" -> "a"
      [] c = "B" -> "b"
      [] c = "I" -> "i"
      [] c = "J" -> "j"
      [] c = "T" -> "t"
      [] OTHER   -> c

\* str.lower()
lower(s) == [i \in 1..Len(s) |-> Lower(s[i])]

\* str.startswith(prefix)
startswith(s, prefix) ==
    /\ Len(prefix) <= Len(s)
    /\ SubSeq(s, 1, Len(prefix)) = prefix

\* str.endswith(suffix)
endswith(s, suffix) ==
    /\ Len(suffix) <= Len(s)
    /\ SubSeq(s, Len(s) - Len(suffix) + 1, Len(s)) = suffix

\* x in list
InList(x, list) == \E i \in 1..Len(list) : list[i] = x

\* the file names of the model
f_aj   == <<"a", ".", "j">>
f_BJ   == <<"B", ".", "J">>
f_ctg  == <<"c", ".", "t", ".", "g">>
f_hid  == <<".", "h", ".", "j">>
f_Tj   == <<"T", ".", "j">>
f_A    == <<"A">>

FileNames == {f_aj, f_BJ, f_ctg, f_hid, f_Tj, f_A}

\* the category names of the model
c_I == <<"I">>
c_A == <<"A">>
c_T == <<"T">>
c_N == <<"N">>

\* the extensions of the model
e_j   == <<".", "j">>
e_J   == <<".", "J">>
e_g   == <<".", "g">>
e_tg  == <<".", "t", ".", "g">>

\* the directories the user can choose
dir_D == <<"D">>
dir_E == <<"E">>
Roots == {<<dir_D>>, <<dir_E>>}

----------------------------------------------------------------------------
(* Filesystem *)

Dir == [kind |-> "dir", id |-> <<>>]

\* a regular file; id names the content (the path it had initially)
File(id) == [kind |-> "file", id |-> id]

\* os.path.exists
exists(f, p) == p \in DOMAIN f

\* os.path.isdir
isdir(f, p) == p \in DOMAIN f /\ f[p].kind = "dir"

\* os.path.isfile
isfile(f, p) == p \in DOMAIN f /\ f[p].kind = "file"

\* os.path.join(p, name)
join(p, name) == Append(p, name)

dirname(p) == SubSeq(p, 1, Len(p) - 1)

\* os.path.basename
basename(p) == p[Len(p)]

IsPrefix(p, q) == Len(p) <= Len(q) /\ SubSeq(q, 1, Len(p)) = p

\* the paths at and below p
Under(f, p) == {q \in DOMAIN f : IsPrefix(p, q)}

\* os.makedirs(p): p and every missing ancestor become directories
makedirs(f, p) ==
    LET new == {SubSeq(p, 1, n) : n \in 1..Len(p)} \ DOMAIN f
    IN  [q \in DOMAIN f \cup new |-> IF q \in new THEN Dir ELSE f[q]]

\* os.rename(src, dst) succeeds (POSIX; where Windows refuses to replace an
\* existing file, shutil.move falls back to copy2 + unlink, same outcome)
rename_ok(f, src, dst) ==
    /\ exists(f, src)
    /\ isdir(f, dirname(dst))
    /\ ~IsPrefix(src, dst)
    /\ IF isdir(f, src)
         THEN ~exists(f, dst)
         ELSE ~isdir(f, dst)

\* rename that leaves the tree at src in place
rename_Copy(f, src, dst) ==
    LET moved == Under(f, src)
        rest  == DOMAIN f \ Under(f, dst)
        to(q) == dst \o SubSeq(q, Len(src) + 1, Len(q))
        new   == {to(q) : q \in moved}
    IN  [q \in rest \cup new |->
            IF q \in new
              THEN f[CHOOSE s \in moved : to(s) = q]
              ELSE f[q]]

\* the filesystem after os.rename(src, dst): the tree at src now at dst
rename(f, src, dst) ==
    LET moved == Under(f, src)
        rest  == (DOMAIN f \ moved) \ Under(f, dst)
        to(q) == dst \o SubSeq(q, Len(src) + 1, Len(q))
        new   == {to(q) : q \in moved}
    IN  [q \in rest \cup new |->
            IF q \in new
              THEN f[CHOOSE s \in moved : to(s) = q]
              ELSE f[q]]

\* shutil.move(src, dst): [ok |-> no OSError raised, fs |-> the result]
shutil_move(f, src, dst) ==
    LET real_dst == IF isdir(f, dst) THEN join(dst, basename(src)) ELSE dst
    IN  IF isdir(f, dst) /\ exists(f, real_dst)
          THEN [ok |-> FALSE, fs |-> f]
          ELSE IF rename_ok(f, src, real_dst)
                 THEN [ok |-> TRUE, fs |-> rename(f, src, real_dst)]
                 ELSE [ok |-> FALSE, fs |-> f]

\* the fixed order in which the model lists names
NameOrder == <<f_aj, f_BJ, f_ctg, f_hid, f_Tj, f_A, c_I, c_T>>

\* os.listdir(d)
listdir(f, d) ==
    SelectSeq(NameOrder, LAMBDA n : exists(f, join(d, n)))

----------------------------------------------------------------------------
(* Configuration *)

\* the keys of the dict
KeySet(dict) == {dict[i].name : i \in 1..Len(dict)}

\* the documents config.json can hold when the program starts
Config1 ==
    [categories |-> << [name |-> c_I, exts |-> <<e_j>>],
                       [name |-> c_A, exts |-> <<e_g>>],
                       [name |-> c_T, exts |-> <<e_tg, e_j>>] >>,
     ignore     |-> <<f_Tj>>]

Config2 ==
    [categories |-> << [name |-> c_I, exts |-> <<e_J>>],
                       [name |-> c_T, exts |-> <<e_tg>>] >>,
     ignore     |-> <<f_Tj>>]

ConfigFiles == {Config1, Config2}

\* ignore_list = [item.lower() for item in config['ignore']]
LoadIgnore(doc) == [i \in 1..Len(doc.ignore) |-> lower(doc.ignore[i])]

\* list(dict.keys()), in insertion order
keys(dict) == [i \in 1..Len(dict) |-> dict[i].name]

\* key in dict
DictHas(dict, key) == \E i \in 1..Len(dict) : dict[i].name = key

\* dict[key], for a key of the dict
DictGet(dict, key) == dict[CHOOSE i \in 1..Len(dict) : dict[i].name = key].exts

\* dict[key] = value: a key of the dict keeps its place, a new key goes last
DictSet(dict, key, value) ==
    IF DictHas(dict, key)
      THEN [i \in 1..Len(dict) |->
              IF dict[i].name = key THEN [name |-> key, exts |-> value]
                                    ELSE dict[i]]
      ELSE Append(dict, [name |-> key, exts |-> value])

\* del dict[key], for a key of the dict
DictDel(dict, key) == SelectSeq(dict, LAMBDA item : item.name # key)

\* save_config: the document written to config.json
save_config_Stale(doc, categories, ignore) == doc

save_config(doc, categories, ignore) ==
    [doc EXCEPT !.categories = categories, !.ignore = ignore]

----------------------------------------------------------------------------
(* organize_files *)

\* any(filename.lower().endswith(ext) for ext in extensions)
AnyEndswith(filename, extensions) ==
    \E i \in 1..Len(extensions) : endswith(lower(filename), extensions[i])

\* Skipped with the file name compared as written
Skipped_CaseSensitive(filename) ==
    \/ InList(filename, ignore_list)
    \/ startswith(filename, <<".">>)

\* filename.lower() in ignore_list or filename.startswith('.')
Skipped(filename) ==
    \/ InList(lower(filename), ignore_list)
    \/ startswith(filename, <<".">>)

\* EnsureFolder with the dry-run test left out
EnsureFolder_Always(f, folder_path, dry_run) == makedirs(f, folder_path)

\* if not dry_run: os.makedirs(folder_path)
EnsureFolder(f, folder_path, dry_run) ==
    IF ~dry_run THEN makedirs(f, folder_path) ELSE f

\* the loop that creates the category folders, from the i-th category on;
\* st is [fs, created]
RECURSIVE CreateFolders(_, _, _, _)
CreateFolders(st, d, dry_run, i) ==
    IF i > Len(file_extensions) THEN st
    ELSE LET folder      == file_extensions[i].name
             folder_path == join(d, folder)
         IN  IF ~exists(st.fs, folder_path)
               THEN CreateFolders(
                      [fs      |-> EnsureFolder(st.fs, folder_path, dry_run),
                       created |-> Append(st.created, folder)],
                      d, dry_run, i + 1)
               ELSE CreateFolders(st, d, dry_run, i + 1)

\* Attempt with the count taken in the real-run branch only
Attempt_NoDryCount(st, d, filename, folder, dry_run) ==
    LET file_path   == join(d, filename)
        target_path == join(join(d, folder), filename)
        m           == shutil_move(st.fs, file_path, target_path)
        line        == [name |-> filename, folder |-> folder]
    IN  IF dry_run
          THEN [st EXCEPT !.would  = Append(@, line),
                          !.moved  = TRUE]
          ELSE IF m.ok
                 THEN [st EXCEPT
                         !.fs     = m.fs,
                         !.batch  = Append(@, <<file_path, target_path>>),
                         !.logged = Append(@, line),
                         !.counts = [@ EXCEPT ![folder] = @ + 1],
                         !.moved  = TRUE]
                 ELSE [st EXCEPT !.errors = Append(@, line)]

\* Attempt with the count taken for a failed move too
Attempt_CountOnError(st, d, filename, folder, dry_run) ==
    LET file_path   == join(d, filename)
        target_path == join(join(d, folder), filename)
        m           == shutil_move(st.fs, file_path, target_path)
        line        == [name |-> filename, folder |-> folder]
    IN  IF dry_run
          THEN [st EXCEPT !.would  = Append(@, line),
                          !.counts = [@ EXCEPT ![folder] = @ + 1],
                          !.moved  = TRUE]
          ELSE IF m.ok
                 THEN [st EXCEPT
                         !.fs     = m.fs,
                         !.batch  = Append(@, <<file_path, target_path>>),
                         !.logged = Append(@, line),
                         !.counts = [@ EXCEPT ![folder] = @ + 1],
                         !.moved  = TRUE]
                 ELSE [st EXCEPT !.errors = Append(@, line),
                                 !.counts = [@ EXCEPT ![folder] = @ + 1]]

\* the body run for a category that matches the file: the dry-run line or
\* the move, then the count; moved is set unless the move raised OSError
Attempt(st, d, filename, folder, dry_run) ==
    LET file_path   == join(d, filename)
        target_path == join(join(d, folder), filename)
        m           == shutil_move(st.fs, file_path, target_path)
        line        == [name |-> filename, folder |-> folder]
    IN  IF dry_run
          THEN [st EXCEPT !.would  = Append(@, line),
                          !.counts = [@ EXCEPT ![folder] = @ + 1],
                          !.moved  = TRUE]
          ELSE IF m.ok
                 THEN [st EXCEPT
                         !.fs     = m.fs,
                         !.batch  = Append(@, <<file_path, target_path>>),
                         !.logged = Append(@, line),
                         !.counts = [@ EXCEPT ![folder] = @ + 1],
                         !.moved  = TRUE]
                 ELSE [st EXCEPT !.errors = Append(@, line)]

\* the inner loop over the categories for one file, from the i-th category
\* on: "break" after a move or a dry-run line; after a failed move the
\* "continue" of the except clause goes on with the next category
RECURSIVE TryCategories(_, _, _, _, _)
TryCategories(st, d, filename, dry_run, i) ==
    IF i > Len(file_extensions) THEN st
    ELSE LET folder     == file_extensions[i].name
             extensions == file_extensions[i].exts
             tried      == Attempt(st, d, filename, folder, dry_run)
         IN  IF AnyEndswith(filename, extensions)
               THEN IF tried.moved
                      THEN tried
                      ELSE TryCategories(tried, d, filename, dry_run, i + 1)
               ELSE TryCategories(st, d, filename, dry_run, i + 1)

\* the loop over the listing, from the k-th name on
RECURSIVE MoveFiles(_, _, _, _, _)
MoveFiles(st, d, listing, dry_run, k) ==
    IF k > Len(listing) THEN st
    ELSE LET filename  == listing[k]
             file_path == join(d, filename)
             tried     == TryCategories([st EXCEPT !.moved = FALSE],
                                        d, filename, dry_run, 1)
             after     == IF ~tried.moved
                            THEN [tried EXCEPT !.unmatched = Append(@, filename)]
                            ELSE tried
         IN  IF isfile(st.fs, file_path) /\ ~Skipped(filename)
               THEN MoveFiles(after, d, listing, dry_run, k + 1)
               ELSE MoveFiles(st, d, listing, dry_run, k + 1)

\* organize_files with a directory selected: the filesystem, the batch and
\* the report it ends with.  raised: os.listdir raised (the directory does
\* not exist), which ends the handler before anything is reported.
OrganizeRun(f, d, dry_run) ==
    LET made == CreateFolders([fs |-> f, created |-> <<>>], d, dry_run, 1)
        st0  == [fs        |-> made.fs,
                 created   |-> made.created,
                 batch     |-> <<>>,
                 counts    |-> [c \in KeySet(file_extensions) |-> 0],
                 would     |-> <<>>,
                 logged    |-> <<>>,
                 errors    |-> <<>>,
                 unmatched |-> <<>>,
                 moved     |-> FALSE,
                 raised    |-> FALSE]
    IN  IF ~isdir(made.fs, d)
          THEN [st0 EXCEPT !.raised = TRUE]
          ELSE MoveFiles(st0, d, listdir(made.fs, d), dry_run, 1)

\* sum(organized_counts.values())
RECURSIVE SumCounts(_, _)
SumCounts(counts, S) ==
    IF S = {} THEN 0
    ELSE LET c == CHOOSE x \in S : TRUE
         IN  counts[c] + SumCounts(counts, S \ {c})

organized_count(counts) == SumCounts(counts, DOMAIN counts)

----------------------------------------------------------------------------
(* undo_changes *)

\* UndoOne with the arguments of shutil.move swapped
UndoOne_Swapped(st, record) ==
    LET src  == record[1]
        dest == record[2]
        m    == shutil_move(st.fs, src, dest)
    IN  IF exists(st.fs, dest)
          THEN IF m.ok
                 THEN [st EXCEPT !.fs = m.fs, !.undo_count = @ + 1]
                 ELSE [st EXCEPT !.errors = Append(@, dest)]
          ELSE [st EXCEPT !.missing = Append(@, dest)]

\* the body of the loop for one record; st is [fs, undo_count, errors,
\* missing]
UndoOne(st, record) ==
    LET src  == record[1]
        dest == record[2]
        m    == shutil_move(st.fs, dest, src)
    IN  IF exists(st.fs, dest)
          THEN IF m.ok
                 THEN [st EXCEPT !.fs = m.fs, !.undo_count = @ + 1]
                 ELSE [st EXCEPT !.errors = Append(@, dest)]
          ELSE [st EXCEPT !.missing = Append(@, dest)]

\* the loop over the records of the batch, from the k-th on
RECURSIVE UndoBatch(_, _, _)
UndoBatch(st, last_batch, k) ==
    IF k > Len(last_batch) THEN st
    ELSE UndoBatch(UndoOne(st, last_batch[k]), last_batch, k + 1)

\* Pop that clears the list
Pop_Clear(stack) == <<>>

\* list.pop(): the list without its last element
Pop(stack) == SubSeq(stack, 1, Len(stack) - 1)

\* Record that keeps the new batch only
Record_Replace(stack, current_batch) ==
    IF current_batch # <<>> THEN <<current_batch>> ELSE stack

\* Record that appends every batch
Record_Always(stack, current_batch) == Append(stack, current_batch)

\* if current_batch: undo_stack.append(current_batch)
Record(stack, current_batch) ==
    IF current_batch # <<>> THEN Append(stack, current_batch) ELSE stack

----------------------------------------------------------------------------
(* Observation of the last operation *)

NoCounts == [c \in {} |-> 0]

NoDoc == [categories |-> <<>>, ignore |-> <<>>]

NoOp ==
    [op        |-> "none",
     status    |-> "none",
     cat       |-> <<>>,
     pre_rules |-> <<>>,
     pre_file  |-> NoDoc,
     dry_run   |-> FALSE,
     dir       |-> None,
     pre_fs    |-> <<>>,
     pre_stack |-> <<>>,
     batch     |-> <<>>,
     counts    |-> NoCounts,
     total     |-> 0,
     created   |-> <<>>,
     would     |-> <<>>,
     logged    |-> <<>>,
     errors    |-> <<>>,
     unmatched |-> <<>>,
     missing   |-> <<>>,
     org_pre   |-> <<>>,
     org_post  |-> <<>>]

\* a configuration window that is not open
Closed == [open |-> FALSE, listbox |-> <<>>, sel |-> 0, ext_vars |-> <<>>]

----------------------------------------------------------------------------
(* Initial states *)

\* trees that may already lie in the chosen directory
Extra1 == [dirs  |-> {<<dir_D, c_I>>},
           files |-> {<<dir_D, c_I, f_aj>>}]

Extra2 == [dirs  |-> {<<dir_D, c_A>>, <<dir_D, c_A, f_ctg>>},
           files |-> {}]

Extra3 == [dirs  |-> {<<dir_D, c_A>>, <<dir_D, c_A, f_ctg>>},
           files |-> {<<dir_D, c_A, f_ctg, f_ctg>>}]

Extra4 == [dirs  |-> {<<dir_D, c_T>>, <<dir_D, c_T, f_ctg>>},
           files |-> {<<dir_D, c_T, f_ctg, f_ctg>>}]

Extras == {Extra1, Extra2, Extra3, Extra4}

InitDirs(ex, e) ==
    {<<dir_D>>} \cup (IF e THEN {<<dir_E>>} ELSE {})
                \cup UNION {x.dirs : x \in ex}

InitFiles(top, ex, e) ==
    {<<dir_D, n>> : n \in top} \cup (IF e THEN {<<dir_E, f_aj>>} ELSE {})
                               \cup UNION {x.files : x \in ex}

InitFs(top, ex, e) ==
    [p \in InitDirs(ex, e) \cup InitFiles(top, ex, e) |->
        IF p \in InitFiles(top, ex, e) THEN File(p) ELSE Dir]

Init ==
    \E doc \in ConfigFiles, top \in SUBSET FileNames,
       ex \in SUBSET Extras, e \in BOOLEAN :
        /\ Cardinality(top) <= MaxFiles
        /\ Cardinality(ex) <= MaxExtras
        /\ InitDirs(ex, e) \cap InitFiles(top, ex, e) = {}
        /\ fs = InitFs(top, ex, e)
        /\ config_file = doc
        /\ file_extensions = doc.categories
        /\ ignore_list = LoadIgnore(doc)
        /\ selected_directory = None
        /\ undo_stack = <<>>
        /\ last = NoOp
        /\ snaps = <<>>
        /\ deleted = 0
        /\ windows = [w \in 1..MaxWindows |-> Closed]
        /\ cfg_steps = 0

----------------------------------------------------------------------------
(* Actions *)

\* select_directory: the dialog returns the path d
SelectDirectory(d) ==
    /\ selected_directory # d
    /\ selected_directory' = d
    /\ UNCHANGED <<fs, cfgvars, undo_stack, last, snaps, deleted>>

\* organize_files with no directory selected: an error box, then return
OrganizeNoDirectory ==
    /\ selected_directory = None
    /\ last' = [NoOp EXCEPT !.op        = "organize",
                            !.status    = "NoDirectorySelected",
                            !.pre_fs    = fs,
                            !.pre_stack = undo_stack]
    /\ UNCHANGED <<fs, cfgvars, selected_directory, undo_stack, snaps, deleted>>

\* organize_files with a directory selected
Organize(dry_run) ==
    /\ selected_directory # None
    /\ \E r \in {OrganizeRun(fs, selected_directory, dry_run)} :
           /\ fs' = r.fs
           /\ undo_stack' = IF r.raised THEN undo_stack
                                        ELSE Record(undo_stack, r.batch)
           /\ last' = [op        |-> "organize",
                       status    |-> IF r.raised THEN "exception" ELSE "ok",
                       cat       |-> <<>>,
                       pre_rules |-> file_extensions,
                       pre_file  |-> config_file,
                       dry_run   |-> dry_run,
                       dir       |-> selected_directory,
                       pre_fs    |-> fs,
                       pre_stack |-> undo_stack,
                       batch     |-> r.batch,
                       counts    |-> r.counts,
                       total     |-> organized_count(r.counts),
                       created   |-> r.created,
                       would     |-> r.would,
                       logged    |-> r.logged,
                       errors    |-> r.errors,
                       unmatched |-> r.unmatched,
                       missing   |-> <<>>,
                       org_pre   |-> <<>>,
                       org_post  |-> <<>>]
           /\ snaps' = IF ~r.raised /\ r.batch # <<>>
                         THEN Append(snaps, [pre |-> fs, post |-> r.fs,
                                             errors |-> r.errors])
                         ELSE snaps
    /\ UNCHANGED <<cfgvars, selected_directory, deleted>>

\* undo_changes with nothing to undo: return at once
UndoNothing ==
    /\ undo_stack = <<>>
    /\ last' = [NoOp EXCEPT !.op        = "undo",
                            !.status    = "NothingToUndo",
                            !.pre_fs    = fs,
                            !.pre_stack = undo_stack]
    /\ UNCHANGED <<fs, cfgvars, selected_directory, undo_stack, snaps, deleted>>

\* undo_changes with a batch on the stack
Undo ==
    /\ undo_stack # <<>>
    /\ LET last_batch == undo_stack[Len(undo_stack)]
       IN  \E r \in {UndoBatch([fs |-> fs, undo_count |-> 0,
                                errors |-> <<>>, missing |-> <<>>],
                               last_batch, 1)} :
           /\ undo_stack' = Pop(undo_stack)
           /\ fs' = r.fs
           /\ last' = [NoOp EXCEPT !.op        = "undo",
                                   !.status    = "ok",
                                   !.pre_fs    = fs,
                                   !.pre_stack = undo_stack,
                                   !.batch     = last_batch,
                                   !.total     = r.undo_count,
                                   !.errors    = r.errors,
                                   !.missing   = r.missing,
                                   !.org_pre   = snaps[Len(snaps)].pre,
                                   !.org_post  = snaps[Len(snaps)].post]
           /\ snaps' = Pop(snaps)
    /\ UNCHANGED <<cfgvars, selected_directory, deleted>>

\* the destinations of the records of the batch on top of the stack
HeldDests ==
    IF undo_stack = <<>> THEN {}
    ELSE {undo_stack[Len(undo_stack)][k][2] :
            k \in 1..Len(undo_stack[Len(undo_stack)])}

\* the user removes an organized file from its category folder
ExternalDelete(p) ==
    /\ deleted < MaxDeletes
    /\ isfile(fs, p)
    /\ fs' = [q \in DOMAIN fs \ {p} |-> fs[q]]
    /\ deleted' = deleted + 1
    /\ last' = [NoOp EXCEPT !.op = "external"]
    /\ UNCHANGED <<cfgvars, selected_directory, undo_stack, snaps>>

Next ==
    \/ \E d \in Roots : SelectDirectory(d)
    \/ \E p \in HeldDests : ExternalDelete(p)
    \/ OrganizeNoDirectory
    \/ \E dry_run \in BOOLEAN : Organize(dry_run)
    \/ UndoNothing
    \/ Undo

Spec == Init /\ [][Next]_vars

----------------------------------------------------------------------------
(* open_config_window and the handlers of its buttons *)

\* the names the user types into the "Add Category" dialog (<<>>: cancelled)
NewCategories == {<<>>, c_I, c_N}

\* the extensions the user types into the "Add Extension" dialog
NewExtensions == {<<>>, e_j, e_J}

\* update_extensions: the checkboxes are cleared, then rebuilt (all ticked)
\* for the selected category; file_extensions[cat] raises KeyError for a
\* category that is no longer there, after the clearing
update_extensions(win, categories) ==
    IF win.sel # 0 /\ DictHas(categories, win.listbox[win.sel])
      THEN [win EXCEPT !.ext_vars =
              [j \in 1..Len(DictGet(categories, win.listbox[win.sel])) |->
                  [ext |-> DictGet(categories, win.listbox[win.sel])[j],
                   var |-> TRUE]]]
      ELSE [win EXCEPT !.ext_vars = <<>>]

add_category_NoCheck(categories, new_cat) ==
    IF new_cat # <<>> THEN DictSet(categories, new_cat, <<>>) ELSE categories

\* the body of add_category on the rules
add_category(categories, new_cat) ==
    IF new_cat # <<>> /\ ~DictHas(categories, new_cat)
      THEN DictSet(categories, new_cat, <<>>)
      ELSE categories

\* [ext for ext, var in ext_vars if var.get()]
Ticked(ext_vars) ==
    LET on == SelectSeq(ext_vars, LAMBDA ev : ev.var)
    IN  [j \in 1..Len(on) |-> on[j].ext]

\* the body of save_extensions on the rules
save_extensions(categories, cat, ext_vars) ==
    DictSet(categories, cat, Ticked(ext_vars))

\* the record of a handler of the configuration window
ConfigOp(op, status, cat) ==
    [NoOp EXCEPT !.op        = op,
                 !.status    = status,
                 !.cat       = cat,
                 !.pre_rules = file_extensions,
                 !.pre_file  = config_file]

ConfigStep ==
    /\ cfg_steps < MaxConfigSteps
    /\ cfg_steps' = cfg_steps + 1
    /\ UNCHANGED <<fsvars, ignore_list>>

\* open_config_window: the listbox is filled from file_extensions.keys()
OpenConfigWindow(w) ==
    /\ ~windows[w].open
    /\ ConfigStep
    /\ windows' = [windows EXCEPT ![w] =
                     [open |-> TRUE, listbox |-> keys(file_extensions),
                      sel |-> 0, ext_vars |-> <<>>]]
    /\ UNCHANGED <<config_file, file_extensions, last>>

\* the Close button: config_win.destroy
CloseConfigWindow(w) ==
    /\ windows[w].open
    /\ ConfigStep
    /\ windows' = [windows EXCEPT ![w] = Closed]
    /\ UNCHANGED <<config_file, file_extensions, last>>

\* the user clicks the i-th line of the listbox of window w: it becomes the
\* selection, the listbox of any other window gives its selection up
\* (exportselection), and <<ListboxSelect>> runs update_extensions
SelectCategory(w, i) ==
    /\ windows[w].open
    /\ i \in 1..Len(windows[w].listbox)
    /\ ConfigStep
    /\ windows' = [v \in 1..MaxWindows |->
                     IF v = w
                       THEN update_extensions([windows[v] EXCEPT !.sel = i],
                                              file_extensions)
                       ELSE update_extensions([windows[v] EXCEPT !.sel = 0],
                                              file_extensions)]
    /\ UNCHANGED <<config_file, file_extensions, last>>

\* the user clicks the j-th checkbox of window w
ToggleExtension(w, j) ==
    /\ windows[w].open
    /\ j \in 1..Len(windows[w].ext_vars)
    /\ ConfigStep
    /\ windows' = [windows EXCEPT ![w].ext_vars[j].var = ~@]
    /\ UNCHANGED <<config_file, file_extensions, last>>

\* add_category, the dialog returning new_cat
AddCategory(w, new_cat) ==
    /\ windows[w].open
    /\ ConfigStep
    /\ IF new_cat # <<>> /\ ~DictHas(file_extensions, new_cat)
         THEN /\ file_extensions' = add_category(file_extensions, new_cat)
              /\ windows' = [windows EXCEPT ![w].listbox = Append(@, new_cat)]
              /\ config_file' = save_config(config_file, file_extensions',
                                            ignore_list)
              /\ last' = ConfigOp("add_category", "ok", new_cat)
         ELSE /\ file_extensions' = add_category(file_extensions, new_cat)
              /\ last' = ConfigOp("add_category",
                                  IF new_cat = <<>> THEN "cancelled"
                                                    ELSE "DuplicateCategory",
                                  new_cat)
              /\ UNCHANGED <<windows, config_file>>

\* remove_category, confirmed in the dialog; del file_extensions[cat] raises
\* KeyError for a category that is no longer there
RemoveCategory(w) ==
    /\ windows[w].open
    /\ windows[w].sel # 0
    /\ ConfigStep
    /\ LET cat == windows[w].listbox[windows[w].sel]
       IN  IF DictHas(file_extensions, cat)
             THEN /\ file_extensions' = DictDel(file_extensions, cat)
                  /\ windows' = [windows EXCEPT ![w] =
                       [open     |-> TRUE,
                        listbox  |-> [k \in 1..Len(@.listbox) - 1 |->
                                        IF k < @.sel THEN @.listbox[k]
                                                     ELSE @.listbox[k + 1]],
                        sel      |-> 0,
                        ext_vars |-> <<>>]]
                  /\ config_file' = save_config(config_file, file_extensions',
                                                ignore_list)
                  /\ last' = ConfigOp("remove_category", "ok", cat)
             ELSE /\ last' = ConfigOp("remove_category", "exception", cat)
                  /\ UNCHANGED <<windows, config_file, file_extensions>>

\* add_extension, the dialog returning new_ext; file_extensions[cat] raises
\* KeyError for a category that is no longer there
AddExtension(w, new_ext) ==
    /\ windows[w].open
    /\ windows[w].sel # 0
    /\ ConfigStep
    /\ LET cat == windows[w].listbox[windows[w].sel]
       IN  IF new_ext = <<>>
             THEN /\ last' = ConfigOp("add_extension", "cancelled", cat)
                  /\ UNCHANGED <<windows, config_file, file_extensions>>
             ELSE IF ~DictHas(file_extensions, cat)
             THEN /\ last' = ConfigOp("add_extension", "exception", cat)
                  /\ UNCHANGED <<windows, config_file, file_extensions>>
             ELSE IF InList(new_ext, DictGet(file_extensions, cat))
             THEN /\ last' = ConfigOp("add_extension", "present", cat)
                  /\ UNCHANGED <<windows, config_file, file_extensions>>
             ELSE /\ file_extensions' =
                       DictSet(file_extensions, cat,
                               Append(DictGet(file_extensions, cat), new_ext))
                  /\ config_file' = save_config(config_file, file_extensions',
                                                ignore_list)
                  /\ windows' = [windows EXCEPT ![w] =
                                   update_extensions(@, file_extensions')]
                  /\ last' = ConfigOp("add_extension", "ok", cat)

\* save_extensions: the ticked extensions become the list of the category
\* selected in the listbox
SaveExtensions(w) ==
    /\ windows[w].open
    /\ windows[w].sel # 0
    /\ ConfigStep
    /\ LET cat == windows[w].listbox[windows[w].sel]
       IN  /\ file_extensions' = save_extensions(file_extensions, cat,
                                                 windows[w].ext_vars)
           /\ config_file' = save_config(config_file, file_extensions',
                                         ignore_list)
           /\ last' = ConfigOp("save_extensions", "ok", cat)
    /\ UNCHANGED windows

InitConfig ==
    \E doc \in ConfigFiles :
        /\ fs = InitFs({f_aj}, {}, FALSE)
        /\ config_file = doc
        /\ file_extensions = doc.categories
        /\ ignore_list = LoadIgnore(doc)
        /\ selected_directory = None
        /\ undo_stack = <<>>
        /\ last = NoOp
        /\ snaps = <<>>
        /\ deleted = 0
        /\ windows = [w \in 1..MaxWindows |-> Closed]
        /\ cfg_steps = 0

NextConfig ==
    \/ \E w \in 1..MaxWindows : OpenConfigWindow(w)
    \/ \E w \in 1..MaxWindows : CloseConfigWindow(w)
    \/ \E w \in 1..MaxWindows : \E i \in 1..Len(windows[w].listbox) :
          SelectCategory(w, i)
    \/ \E w \in 1..MaxWindows : \E j \in 1..Len(windows[w].ext_vars) :
          ToggleExtension(w, j)
    \/ \E w \in 1..MaxWindows : \E new_cat \in NewCategories :
          AddCategory(w, new_cat)
    \/ \E w \in 1..MaxWindows : RemoveCategory(w)
    \/ \E w \in 1..MaxWindows : \E new_ext \in NewExtensions :
          AddExtension(w, new_ext)
    \/ \E w \in 1..MaxWindows : SaveExtensions(w)

SpecConfig == InitConfig /\ [][NextConfig]_vars

----------------------------------------------------------------------------
(* Notions the properties are stated in *)

\* the names of the immediate entries of directory d
TopNames(f, d) ==
    {q[Len(q)] : q \in {p \in DOMAIN f : Len(p) = Len(d) + 1 /\ IsPrefix(d, p)}}

\* the immediate entries of directory d: name and kind
TopEntries(f, d) == {<<n, f[join(d, n)].kind>> : n \in TopNames(f, d)}

\* the directory a batch was recorded for
BatchDir(batch) == dirname(batch[1][1])

Range(seq) == {seq[i] : i \in 1..Len(seq)}

OrganizeDone == last.op = "organize" /\ last.status = "ok"

RealRunDone == OrganizeDone /\ ~last.dry_run

DryRunDone == OrganizeDone /\ last.dry_run

\* an undo that reverted the batch of the organize that ran just before it:
\* the filesystem it started from is the one that organize left
UndoRightAfterOrganize ==
    /\ last.op = "undo"
    /\ last.status = "ok"
    /\ last.pre_fs = last.org_post

\* the regular files at the top level of the directory of the last
\* organize, before it ran
TopFilesBefore ==
    {n \in TopNames(last.pre_fs, last.dir) :
        isfile(last.pre_fs, join(last.dir, n))}

\* the name is ignored: it is in the ignore list of config.json, letter
\* case aside, or starts with a dot
IgnoredName(n) ==
    \/ \E i \in 1..Len(config_file.ignore) :
          lower(config_file.ignore[i]) = lower(n)
    \/ n[1] = "."

\* the categories, by position, one of whose extensions is a suffix of the
\* lowercased name
Matching(n) ==
    {i \in 1..Len(file_extensions) :
        \E j \in 1..Len(file_extensions[i].exts) :
            endswith(lower(n), file_extensions[i].exts[j])}

\* the first matching category of a name that has one
FirstCategory(n) ==
    file_extensions[CHOOSE i \in Matching(n) :
                        \A k \in Matching(n) : i <= k].name

----------------------------------------------------------------------------
(* C1 *)

\* C1 as claimed: a real-run organize followed immediately by undo leaves
\* the directory with exactly the top-level entries (files and subfolders)
\* it had before the organize.
C1_RoundTripExact ==
    UndoRightAfterOrganize =>
        TopEntries(fs, BatchDir(last.batch))
            = TopEntries(last.org_pre, BatchDir(last.batch))

\* C1 amended: a real-run organize that moved a file, followed immediately
\* by undo, leaves the directory with the top-level entry names it had
\* before the organize plus one folder per category (the folders organize
\* created stay), and every moved file is a regular file at its source path
\* again with its content, unless its destination path was a directory.
C1_RoundTrip ==
    UndoRightAfterOrganize =>
        LET d == BatchDir(last.batch)
        IN  /\ TopNames(fs, d)
                 = TopNames(last.org_pre, d) \cup KeySet(file_extensions)
            /\ \A r \in Range(last.batch) :
                  ~isdir(last.org_pre, r[2]) =>
                      /\ isfile(fs, r[1])
                      /\ fs[r[1]] = last.org_pre[r[1]]
            /\ \A n \in TopNames(last.org_pre, d) :
                  (\A r \in Range(last.batch) : r[1] # join(d, n)) =>
                      fs[join(d, n)] = last.org_pre[join(d, n)]

\* a round trip that brought two files back and left a created folder
C1_Witness ==
    /\ UndoRightAfterOrganize
    /\ Len(last.batch) >= 2
    /\ last.total = Len(last.batch)
    /\ TopNames(fs, BatchDir(last.batch))
          # TopNames(last.org_pre, BatchDir(last.batch))

----------------------------------------------------------------------------
(* C2 *)

----------------------------------------------------------------------------
(* C3 *)

----------------------------------------------------------------------------
(* C4 *)

\* C4: a dry-run organize leaves the filesystem as it was: no folder is
\* created and no file is moved.
C4_DryRunLeavesFilesystem ==
    (last.op = "organize" /\ last.dry_run) => fs = last.pre_fs

\* a dry run that announced a folder and a move
C4_Witness ==
    /\ DryRunDone
    /\ last.created # <<>>
    /\ last.would # <<>>

----------------------------------------------------------------------------
(* C5 *)

----------------------------------------------------------------------------
(* C6 *)

\* C6: in a real run every matched file is processed (moved or reported as
\* an error), a file is gone from its source path exactly when the batch
\* has a record for it, and a file reported as an error has no record and
\* is still at its source path.
C6_PartialFailureIsolation ==
    RealRunDone =>
        /\ \A n \in TopFilesBefore :
              (~IgnoredName(n) /\ Matching(n) # {}) =>
                  \/ \E r \in Range(last.batch) : r[1] = join(last.dir, n)
                  \/ \E e \in Range(last.errors) : e.name = n
        /\ \A n \in TopFilesBefore :
              ~isfile(fs, join(last.dir, n))
                  <=> \E r \in Range(last.batch) : r[1] = join(last.dir, n)
        /\ \A e \in Range(last.errors) :
              /\ \A r \in Range(last.batch) : r[1] # join(last.dir, e.name)
              /\ isfile(fs, join(last.dir, e.name))

----------------------------------------------------------------------------
(* C7 *)

\* C7: in a real run every record leads to directory/C/filename with C the
\* first matching category of the file, and a file whose move failed is
\* still at its source path.
C7_FirstMatchWins ==
    RealRunDone =>
        /\ \A r \in Range(last.batch) :
              r[2] = join(join(last.dir, FirstCategory(basename(r[1]))),
                          basename(r[1]))
        /\ \A e \in Range(last.errors) :
              /\ isfile(fs, join(last.dir, e.name))
              /\ fs[join(last.dir, e.name)]
                    = last.pre_fs[join(last.dir, e.name)]

----------------------------------------------------------------------------
(* C8 *)

\* C8: an organize with no directory selected, or with a selected directory
\* that does not exist, fails and changes neither the filesystem nor the
\* undo ledger.
C8_DirectoryErrorsAbort ==
    (last.op = "organize" /\ ~isdir(last.pre_fs, last.dir)) =>
        /\ last.status # "ok"
        /\ fs = last.pre_fs
        /\ undo_stack = last.pre_stack

----------------------------------------------------------------------------
(* C9 *)

\* C9: a file is reported unmatched by a dry run exactly when no category
\* holds an extension that, lowercased, is a suffix of the lowercased file
\* name.
C9_CaseInsensitiveExtensions ==
    DryRunDone =>
        \A n \in TopFilesBefore :
            ~IgnoredName(n) =>
                (n \in Range(last.unmatched)
                    <=> \A i \in 1..Len(file_extensions) :
                          \A j \in 1..Len(file_extensions[i].exts) :
                             ~endswith(lower(n),
                                       lower(file_extensions[i].exts[j])))

----------------------------------------------------------------------------
(* C10 *)

\* C10: a top-level file whose name is ignored is left alone by a dry run
\* and by a real run: it stays where it is, no record names it, and it is
\* in no line of the report (moved, would move, unmatched, error).
C10_IgnoredFilesUntouched ==
    OrganizeDone =>
        \A n \in TopFilesBefore :
            IgnoredName(n) =>
                /\ isfile(fs, join(last.dir, n))
                /\ fs[join(last.dir, n)] = last.pre_fs[join(last.dir, n)]
                /\ \A r \in Range(last.batch) : r[1] # join(last.dir, n)
                /\ \A l \in Range(last.would) \cup Range(last.logged)
                            \cup Range(last.errors) : l.name # n
                /\ n \notin Range(last.unmatched)

\* a real run that moved a file past an ignored file with a matching
\* extension
C10_Witness ==
    /\ RealRunDone
    /\ f_Tj \in TopFilesBefore
    /\ Matching(f_Tj) # {}
    /\ last.batch # <<>>

----------------------------------------------------------------------------
(* C11 *)

ConfigOps ==
    {"add_category", "remove_category", "add_extension", "save_extensions"}

\* a handler of the configuration window ran last and changed the rules
RulesChanged == last.op \in ConfigOps /\ file_extensions # last.pre_rules

\* C11: the categories written in config.json are the rules held in memory
\* at all times, and after every configuration operation that changed the
\* rules (add_category, remove_category, add_extension, save_extensions)
\* config.json holds the rules and the ignore list held in memory.
C11_PersistedAgreesWithMemory ==
    /\ config_file.categories = file_extensions
    /\ RulesChanged => config_file.ignore = ignore_list

\* a category was removed and config.json was rewritten
C11_Witness ==
    /\ last.op = "remove_category"
    /\ RulesChanged
    /\ config_file # last.pre_file

----------------------------------------------------------------------------
(* C12 *)

\* C12: add_category with a name that is already a category changes
\* nothing: the rules (the extension list of that category, the order of
\* the categories) and config.json stay as they were.
C12_DuplicateCategoryUntouched ==
    (last.op = "add_category" /\ DictHas(last.pre_rules, last.cat)) =>
        /\ last.status = "DuplicateCategory"
        /\ file_extensions = last.pre_rules
        /\ config_file = last.pre_file

\* the name of a category that has extensions was entered again
C12_Witness ==
    /\ last.op = "add_category"
    /\ DictHas(last.pre_rules, last.cat)
    /\ DictGet(file_extensions, last.cat) # <<>>

----------------------------------------------------------------------------
(* C13 *)

\* C13: save_extensions for a category that is not in the rules when it is
\* called (it was removed through another configuration window) leaves the
\* rules and config.json as they were: the category is not created again.
C13_AbsentCategoryNotRecreated ==
    (last.op = "save_extensions" /\ ~DictHas(last.pre_rules, last.cat)) =>
        /\ file_extensions = last.pre_rules
        /\ config_file = last.pre_file

----------------------------------------------------------------------------
(* C14 *)

\* C14: config.json goes through load and save unchanged: when
\* save_extensions writes the file with the rules as they were loaded (every
\* box left ticked), the categories and the ignore list of the file written
\* are those of the file before, entry for entry as written.
C14_LoadSaveRoundTrip ==
    (last.op = "save_extensions" /\ file_extensions = last.pre_rules) =>
        /\ config_file.categories = last.pre_file.categories
        /\ config_file.ignore = last.pre_file.ignore

----------------------------------------------------------------------------
(* C15 *)

UndoDone == last.op = "undo" /\ last.status = "ok"

\* the records of the undone batch whose destination existed when the undo
\* started
StillThere ==
    {k \in 1..Len(last.batch) : exists(last.pre_fs, last.batch[k][2])}

\* C15: an undo handles each record of its batch exactly once: the file of
\* a record whose destination still exists is a regular file at the source
\* path again and is counted; a record whose destination is gone is skipped
\* and the records after it are still reverted; the count reported is the
\* number of files moved back.
C15_UndoRevertsEachRecordOnce ==
    UndoDone =>
        /\ last.total + Len(last.missing) + Len(last.errors) = Len(last.batch)
        /\ last.total = Cardinality(StillThere)
        /\ \A k \in 1..Len(last.batch) :
              LET src  == last.batch[k][1]
                  dest == last.batch[k][2]
              IN  IF k \in StillThere
                    THEN /\ isfile(fs, src)
                         /\ fs[src] = last.pre_fs[dest]
                         /\ ~exists(fs, dest)
                    ELSE /\ dest \in Range(last.missing)
                         /\ exists(fs, src) = exists(last.pre_fs, src)

\* the same, with "the entry at the destination" in the place of "the file"
C15_UndoMovesEachEntryOnce ==
    UndoDone =>
        /\ last.total + Len(last.missing) + Len(last.errors) = Len(last.batch)
        /\ last.total = Cardinality(StillThere)
        /\ \A k \in 1..Len(last.batch) :
              LET src  == last.batch[k][1]
                  dest == last.batch[k][2]
              IN  IF k \in StillThere
                    THEN /\ fs[src] = last.pre_fs[dest]
                         /\ ~exists(fs, dest)
                    ELSE /\ dest \in Range(last.missing)
                         /\ exists(fs, src) = exists(last.pre_fs, src)

----------------------------------------------------------------------------
(* C16 *)

\* C16: the files an organize reports as "No category found" are exactly
\* the top-level regular files that are not ignored and whose lowercased
\* name ends with no extension of any category; a file that matched a
\* category and whose move failed is reported as an error and not as
\* unmatched.
C16_UnmatchedExactlyUncategorised ==
    OrganizeDone =>
        /\ Range(last.unmatched)
              = {n \in TopFilesBefore : ~IgnoredName(n) /\ Matching(n) = {}}
        /\ \A e \in Range(last.errors) : e.name \notin Range(last.unmatched)

----------------------------------------------------------------------------
(* C17 *)

\* C17: the batch of a dry run is empty, and an organize whose batch is
\* empty (a dry run, or a real run that moved no file) leaves undo_stack as
\* it was: nothing is recorded and the batches held stay held.
C17_EmptyBatchLeavesLedger ==
    last.op = "organize" =>
        /\ last.dry_run => last.batch = <<>>
        /\ last.batch = <<>> => undo_stack = last.pre_stack

\* a real run that moved no file while a batch was held
C17_Witness ==
    /\ RealRunDone
    /\ last.batch = <<>>
    /\ last.pre_stack # <<>>
    /\ undo_stack = last.pre_stack

----------------------------------------------------------------------------
(* C18 *)

\* the records of the last batch whose destination is directly inside the
\* folder of category c
RecordsInto(c) ==
    {k \in 1..Len(last.batch) :
        dirname(last.batch[k][2]) = join(last.dir, c)}

\* C18: after a real-run organize the total reported is the number of
\* records of its batch, the count of each category is the number of
\* records whose destination is in the folder of that category, and every
\* record is (directory/filename, directory/category/filename) for a file
\* that was a regular file at the top level of the directory.
C18_CountsMatchBatch ==
    RealRunDone =>
        /\ last.total = Len(last.batch)
        /\ \A c \in KeySet(file_extensions) :
              last.counts[c] = Cardinality(RecordsInto(c))
        /\ \A r \in Range(last.batch) :
              \E n \in TopFilesBefore, c \in KeySet(file_extensions) :
                  r = <<join(last.dir, n), join(join(last.dir, c), n)>>

\* a real run that moved two files and could not move one of them into the
\* first category that matched it
C18_Witness ==
    /\ RealRunDone
    /\ Len(last.batch) = 2
    /\ last.errors # <<>>
    /\ last.total = 2

----------------------------------------------------------------------------
(* C19 *)

\* the last operation is a real-run organize that ran right after a
\* real-run organize of the same directory which recorded a batch and in
\* which no move failed: it started from the filesystem that one left
OrganizedAgain ==
    /\ RealRunDone
    /\ last.pre_stack # <<>>
    /\ BatchDir(last.pre_stack[Len(last.pre_stack)]) = last.dir
    /\ snaps[Len(last.pre_stack)].post = last.pre_fs
    /\ snaps[Len(last.pre_stack)].errors = <<>>

\* C19: a real-run organize that follows at once a real-run organize of
\* the same directory in which every move succeeded moves no file, reports
\* a total of 0, records nothing and leaves the batch of the first run on
\* top of undo_stack.
C19_OrganizeIdempotent ==
    OrganizedAgain =>
        /\ last.batch = <<>>
        /\ last.total = 0
        /\ fs = last.pre_fs
        /\ undo_stack = last.pre_stack

\* the second run found a file left at the top level and no category for it
C19_Witness ==
    /\ OrganizedAgain
    /\ last.unmatched # <<>>
    /\ Len(undo_stack[Len(undo_stack)]) >= 1

====
